---- MODULE Spec2Model ----
(***************************************************************************)
(* Release Notes Generator (lukekania/generate-release-notes).             *)
(*                                                                         *)
(* A model of the action's run(): release-window resolution, collection,   *)
(* classification, rendering and the three sinks, together with the two    *)
(* upsert helpers run against a platform that keeps its records between    *)
(* runs.                                                                   *)
(*                                                                         *)
(*   SpecClassify  the per-record functions on bounded inputs              *)
(*   SpecRelease   repeated upsertReleaseByTag runs for one tag            *)
(*   SpecComment   repeated upsertComment runs on one change request       *)
(*   SpecRun       one run() from trigger to exit                          *)
(*   SpecSearch    searchMergedPRs, one page request per step              *)
(***************************************************************************)
EXTENDS Integers, Sequences, FiniteSets, TLC

VARIABLES
    \* ---- per-record functions (SpecClassify) ----
    pr,            \* the record handed to the function
    opts,          \* { includeLabels, excludeLabels, ignoreDeps, sectionMap }
    result,        \* what the function returned
    \* ---- upsertReleaseByTag (SpecRelease) ----
    releases,      \* the platform's release records, a sequence of [id, tag, body]
    relCalls,      \* the API calls of the last upsert, in order
    relResult,     \* [action: "created" | "updated" | "threw" | "none", tag]
    relRuns,       \* per tag, the number of upserts run so far
    relFaults,     \* number of calls that failed for another reason than "not found"
    \* ---- upsertComment (SpecComment) ----
    comments,      \* the change request's annotations, oldest first: [marker, rev]
    cmtResult,     \* "created" | "updated" | "none"
    cmtRuns,       \* number of upsertComment runs so far
    \* ---- run() (SpecRun) ----
    ctx,           \* github.context: eventName, refType, refName, ref, payload
    inputs,        \* the action's inputs as run() reads them
    tags,          \* the repository's tags as repos.listTags returns them
    pc,            \* where run() is
    failedAt,      \* the call whose error reached the catch of run(), or Null
    currentTag,
    previousTag,
    baselineISO,
    warnings,      \* core.warning calls, in order
    buckets,       \* the Map of run(): [names, items]
    body,          \* the rendered document
    summary,       \* writeSummary calls, in order
    previewBody,   \* the preview annotation's content, or Null
    sinkLog,       \* the sink calls issued so far, in order
    failures,      \* the number of core.setFailed calls
    \* ---- searchMergedPRs (SpecSearch) ----
    maxPRs,        \* the cap handed to searchMergedPRs
    page,          \* the next page to request
    out,           \* the records accumulated so far
    reqs,          \* the requests issued so far: [page, len] of each answer
    searchPc,      \* "idle" | "loop" | "done" | "threw"
    searchResult   \* the sequence searchMergedPRs returned

clsVars == <<pr, opts, result>>
relVars == <<releases, relCalls, relResult, relRuns, relFaults>>
cmtVars == <<comments, cmtResult, cmtRuns>>
runVars == <<ctx, inputs, tags, pc, failedAt, currentTag, previousTag, baselineISO,
             warnings, buckets, body, summary, previewBody, sinkLog, failures>>
searchVars == <<maxPRs, page, out, reqs, searchPc, searchResult>>
vars == <<pr, opts, result, releases, relCalls, relResult, relRuns, relFaults,
          comments, cmtResult, cmtRuns, ctx, inputs, tags, pc, failedAt, currentTag,
          previousTag, baselineISO, warnings, buckets, body, summary, previewBody,
          sinkLog, failures, maxPRs, page, out, reqs, searchPc, searchResult>>

(***************************************************************************)
(* Generic helpers                                                         *)
(***************************************************************************)
Range(s) == {s[i] : i \in 1..Len(s)}

SetMin(S) == CHOOSE x \in S : \A y \in S : x <= y

SeqsUpTo(S, n) == UNION {[1..k -> S] : k \in 0..n}

\* JavaScript values that are not strings
Undefined == "<undefined>"
Null == "<null>"

\* null, for a variable that holds a timestamp
NoDate == 0 - 1

(***************************************************************************)
(* Strings: String.prototype.toLowerCase on the label alphabet             *)
(***************************************************************************)
LabelNames == {"bug", "Bug", "feat", "deps", "Dependabot", "security", "constructor"}

ToLower(s) ==
    CASE s = "Bug" -> "bug"
      [] s = "Dependabot" -> "dependabot"
      [] s = "Security" -> "security"
      [] s = "Feat" -> "feat"
      [] s = "Fix" -> "fix"
      [] OTHER -> s

LowerAll(labels) == [i \in 1..Len(labels) |-> ToLower(labels[i])]

(***************************************************************************)
(* Constants of the classifier                                             *)
(***************************************************************************)
DEFAULT_LABEL_MAP ==
    [k \in {"bug", "fix", "bugfix", "enhancement", "feat", "feature", "chore",
            "refactor", "deps", "dependencies", "docs", "documentation"} |->
        CASE k \in {"bug", "fix", "bugfix"} -> "Fixed"
          [] k \in {"enhancement", "feat", "feature"} -> "Added"
          [] k \in {"chore", "refactor", "deps", "dependencies"} -> "Changed"
          [] OTHER -> "Docs"]

CONVENTIONAL_PREFIX_MAP ==
    [k \in {"feat", "fix", "chore", "refactor", "docs"} |->
        CASE k = "feat" -> "Added"
          [] k = "fix" -> "Fixed"
          [] k \in {"chore", "refactor"} -> "Changed"
          [] OTHER -> "Docs"]

DEPS_LABELS == {"dependencies", "deps", "dependabot"}

\* The all-lowercase property names every plain object inherits from
\* Object.prototype: map[name] finds them when the map has no such key of its own.
ObjectProtoKeys == {"constructor", "__proto__"}
ProtoValue == "<Object.prototype member>"

\* sectionMap[name] for a plain object
MapGet(map, name) ==
    IF name \in DOMAIN map THEN map[name]
    ELSE IF name \in ObjectProtoKeys THEN ProtoValue
    ELSE Undefined

Truthy(v) == v \notin {Undefined, Null, ""}

(***************************************************************************)
(* bucketForLabels                                                         *)
(***************************************************************************)
BucketForLabels(labelNames, sectionMap) ==
    LET names == LowerAll(labelNames)
        hits == {i \in 1..Len(names) : Truthy(MapGet(sectionMap, names[i]))}
    IN  IF hits = {} THEN "Other" ELSE MapGet(sectionMap, names[SetMin(hits)])

(***************************************************************************)
(* bucketFromConventionalTitle: /^(\w+)(?:\(.+?\))?:\s*/ on the titles of  *)
(* the model; TitlePrefix is match[1], Undefined when the title does not   *)
(* match.                                                                  *)
(***************************************************************************)
Titles == {"fix(auth): correct token refresh", "Feat: dark mode", "wip: spike",
           "Update readme", " docs: tidy "}

TitlePrefix(title) ==
    CASE title = "fix(auth): correct token refresh" -> "fix"
      [] title = "Feat: dark mode" -> "Feat"
      [] title = "wip: spike" -> "wip"
      [] OTHER -> Undefined      \* no colon, or the word does not start the title

BucketFromConventionalTitle(title) ==
    LET word == TitlePrefix(title)
    IN  IF word = Undefined THEN Null
        ELSE IF ToLower(word) \in DOMAIN CONVENTIONAL_PREFIX_MAP
             THEN CONVENTIONAL_PREFIX_MAP[ToLower(word)]
        ELSE Null

(***************************************************************************)
(* shouldExcludePR                                                         *)
(***************************************************************************)
ShouldExcludePRNoDeps(p, o) ==
    \* mutant: the dependency-only rule is left out
    LET labels == LowerAll(p.labels)
    IN  \/ /\ Len(o.excludeLabels) > 0
           /\ \E i \in 1..Len(labels) : labels[i] \in Range(o.excludeLabels)
        \/ /\ Len(o.includeLabels) > 0
           /\ ~ \E i \in 1..Len(labels) : labels[i] \in Range(o.includeLabels)

ShouldExcludePR(p, o) ==
    LET labels == LowerAll(p.labels)
    IN  \/ /\ o.ignoreDeps
           /\ Len(labels) > 0
           /\ \A i \in 1..Len(labels) : labels[i] \in DEPS_LABELS
        \/ /\ Len(o.excludeLabels) > 0
           /\ \E i \in 1..Len(labels) : labels[i] \in Range(o.excludeLabels)
        \/ /\ Len(o.includeLabels) > 0
           /\ ~ \E i \in 1..Len(labels) : labels[i] \in Range(o.includeLabels)

\* run(): the section one record is put into (bucketForLabels, then the
\* conventional-title fallback)
SectionOf(p, sectionMap, useConventional) ==
    LET b == BucketForLabels(p.labels, sectionMap)
    IN  IF b = "Other" /\ useConventional
        THEN (IF BucketFromConventionalTitle(p.title) # Null
              THEN BucketFromConventionalTitle(p.title) ELSE "Other")
        ELSE b


(***************************************************************************)
(* upsertReleaseByTag against the platform's release records               *)
(***************************************************************************)
RelTags == {"v1", "v2"}
Bodies == {"notes A", "notes B"}

ReleasesOf(rels, tag) == {i \in 1..Len(rels) : rels[i].tag = tag}

Call(op, ok) == [op |-> op, ok |-> ok]

\* repos.updateRelease({ release_id, body, draft })
UpdateRelease(rels, id, text) ==
    [i \in 1..Len(rels) |-> IF rels[i].id = id THEN [rels[i] EXCEPT !.body = text]
                            ELSE rels[i]]

\* repos.createRelease({ tag_name, name, body, draft })
CreateRelease(rels, tag, text) ==
    Append(rels, [id |-> Len(rels) + 1, tag |-> tag, body |-> text])

UpsertAlwaysCreate(rels, tag, text, lookupFault, updateFault, createFault) ==
    \* mutant: the lookup's answer is ignored and a release is created every time
    IF createFault
    THEN [releases |-> rels, action |-> "threw",
          calls |-> <<Call("getReleaseByTag", ~lookupFault), Call("createRelease", FALSE)>>]
    ELSE [releases |-> CreateRelease(rels, tag, text), action |-> "created",
          calls |-> <<Call("getReleaseByTag", ~lookupFault), Call("createRelease", TRUE)>>]

\* The three calls fail when the platform says so: the lookup when no release
\* has the tag or on a fault, the update and the create on a fault. Both calls
\* of the try block are under the one catch, which creates.
UpsertReleaseByTag(rels, tag, text, lookupFault, updateFault, createFault) ==
    LET found == ReleasesOf(rels, tag)
        lookupOk == found # {} /\ ~lookupFault
        existing == rels[SetMin(found)]
        tried == IF ~lookupOk THEN <<Call("getReleaseByTag", FALSE)>>
                 ELSE <<Call("getReleaseByTag", TRUE), Call("updateRelease", ~updateFault)>>
    IN  IF lookupOk /\ ~updateFault
        THEN [releases |-> UpdateRelease(rels, existing.id, text), action |-> "updated",
              calls |-> tried]
        ELSE IF createFault
        THEN [releases |-> rels, action |-> "threw",
              calls |-> Append(tried, Call("createRelease", FALSE))]
        ELSE [releases |-> CreateRelease(rels, tag, text), action |-> "created",
              calls |-> Append(tried, Call("createRelease", TRUE))]


(***************************************************************************)
(* upsertComment against the annotations of one change request.  An        *)
(* annotation is [marker, rev]: whether its body contains PREVIEW_MARKER,  *)
(* and which run wrote the body (0: somebody else's annotation).           *)
(***************************************************************************)
PerPage == 100

\* issues.listComments({ per_page: 100 }): one request, the first page
ListComments(cs) == SubSeq(cs, 1, IF Len(cs) < PerPage THEN Len(cs) ELSE PerPage)

\* the body run() builds always holds the marker
UpsertCommentOn(cs, rev) ==
    LET firstPage == ListComments(cs)
        hits == {i \in 1..Len(firstPage) : firstPage[i].marker}
    IN  IF hits # {}
        THEN [comments |-> [cs EXCEPT ![SetMin(hits)] = [marker |-> TRUE, rev |-> rev]],
              updated |-> TRUE]
        ELSE [comments |-> Append(cs, [marker |-> TRUE, rev |-> rev]),
              updated |-> FALSE]

(***************************************************************************)
(* SpecClassify: bucketForLabels and shouldExcludePR applied to one record *)
(***************************************************************************)
MaxLabels == 2

LabelLists == SeqsUpTo(LabelNames, MaxLabels)

\* include_labels / exclude_labels after parseCommaSeparated: trimmed, lowercase
FilterLists == {<<>>, <<"deps">>, <<"bug">>, <<"bug", "security">>}

CustomKeys == {"bug", "Bug", "security"}
CustomSections == {"Fixed", "Security"}

\* section_map after JSON.parse: the default, and every map from some of the
\* custom keys to the custom sections
SectionMaps ==
    {DEFAULT_LABEL_MAP} \cup UNION {[K -> CustomSections] : K \in SUBSET CustomKeys}

NoOpts == [includeLabels |-> <<>>, excludeLabels |-> <<>>, ignoreDeps |-> FALSE,
           sectionMap |-> DEFAULT_LABEL_MAP]
NoResult == [op |-> "none", value |-> Undefined]

RelIdle ==
    /\ releases = <<>>
    /\ relCalls = <<>>
    /\ relResult = [action |-> "none", tag |-> Null]
    /\ relRuns = [t \in RelTags |-> 0]
    /\ relFaults = 0

CmtIdle ==
    /\ comments = <<>>
    /\ cmtResult = "none"
    /\ cmtRuns = 0

SearchIdle ==
    /\ maxPRs = 0
    /\ page = 1
    /\ out = <<>>
    /\ reqs = <<>>
    /\ searchPc = "idle"
    /\ searchResult = <<>>

RunIdle ==
    /\ ctx = Null
    /\ inputs = Null
    /\ tags = <<>>
    /\ pc = "idle"
    /\ failedAt = Null
    /\ currentTag = Null
    /\ previousTag = Null
    /\ baselineISO = NoDate
    /\ warnings = <<>>
    /\ buckets = Null
    /\ body = Null
    /\ summary = <<>>
    /\ previewBody = Null
    /\ sinkLog = <<>>
    /\ failures = 0

ClsIdle ==
    /\ pr = [number |-> 1, title |-> "Update readme", labels |-> <<>>]
    /\ opts = NoOpts
    /\ result = NoResult

InitClassify ==
    /\ pr \in [number : {1}, title : {"Update readme"}, labels : LabelLists]
    /\ opts = NoOpts
    /\ result = NoResult
    /\ RelIdle
    /\ CmtIdle
    /\ RunIdle
    /\ SearchIdle

\* const excluded = shouldExcludePR(pr, { includeLabels, excludeLabels, ignoreDeps })
ExcludeStep ==
    /\ \E inc \in FilterLists, exc \in FilterLists, ign \in BOOLEAN :
          /\ opts' = [NoOpts EXCEPT !.includeLabels = inc, !.excludeLabels = exc,
                                    !.ignoreDeps = ign]
          /\ result' = [op |-> "shouldExcludePR", value |-> ShouldExcludePR(pr, opts')]
    /\ UNCHANGED <<pr, relVars, cmtVars, runVars, searchVars>>

\* let b = bucketForLabels(pr.labels, sectionMap)
BucketStep ==
    /\ \E m \in SectionMaps :
          /\ opts' = [NoOpts EXCEPT !.sectionMap = m]
          /\ result' = [op |-> "bucketForLabels",
                        value |-> BucketForLabels(pr.labels, m)]
    /\ UNCHANGED <<pr, relVars, cmtVars, runVars, searchVars>>

NextClassify == ExcludeStep \/ BucketStep

SpecClassify == InitClassify /\ [][NextClassify]_vars

AllDepsLabels(p) ==
    /\ Len(p.labels) > 0
    /\ \A i \in 1..Len(p.labels) : ToLower(p.labels[i]) \in DEPS_LABELS

HasLabelIn(p, list) == \E i \in 1..Len(p.labels) : ToLower(p.labels[i]) \in Range(list)

\* C8 (as claimed): bucketForLabels returns the section of the first label, in
\* label-list order, that equals a map key when both are compared without regard
\* to case, and "Other" when no label equals a key.
KeysMatching(map, label) == {k \in DOMAIN map : ToLower(k) = ToLower(label)}

C8_FirstCaseInsensitiveMatch ==
    result.op = "bucketForLabels" =>
        LET map == opts.sectionMap
            hits == {i \in 1..Len(pr.labels) : KeysMatching(map, pr.labels[i]) # {}}
        IN  IF hits = {} THEN result.value = "Other"
            ELSE result.value \in
                    {map[k] : k \in KeysMatching(map, pr.labels[SetMin(hits)])}

\* C10 (as claimed): a record whose labels are all dependency labels is dropped
\* when ignoreDeps is set and retained when it is not, whatever the include and
\* exclude sets are.
C10_DepsOnlyDecidedByFlagAlone ==
    (result.op = "shouldExcludePR" /\ AllDepsLabels(pr)) =>
        (result.value = opts.ignoreDeps)

\* C10 (amended): a record with at least one label, all of them dependency
\* labels, is dropped when ignoreDeps is set; when it is not set the record is
\* retained exactly when the exclude and include filters retain it: no label is
\* in the exclude set, and the include set is empty or holds one of its labels.
C10_DepsOnly ==
    (result.op = "shouldExcludePR" /\ AllDepsLabels(pr)) =>
        /\ opts.ignoreDeps => result.value = TRUE
        /\ ~opts.ignoreDeps =>
              (result.value = FALSE <=>
                  /\ ~HasLabelIn(pr, opts.excludeLabels)
                  /\ (opts.includeLabels = <<>> \/ HasLabelIn(pr, opts.includeLabels)))

\* C10 witnesses: a dependency-only record dropped by the flag alone, and one
\* retained with the flag off.
C10_Witness ==
    /\ result.op = "shouldExcludePR"
    /\ pr.labels = <<"deps", "Dependabot">>
    /\ opts.ignoreDeps
    /\ opts.excludeLabels = <<>>
    /\ opts.includeLabels = <<"deps">>
    /\ result.value = TRUE

(***************************************************************************)
(* SpecRelease: upsertReleaseByTag run again and again, one run after the  *)
(* other, on a platform that starts without releases.  A fault is a call   *)
(* failing for another reason than "no release has this tag".              *)
(***************************************************************************)
MaxRuns == 3

InitRelease ==
    /\ RelIdle
    /\ ClsIdle
    /\ CmtIdle
    /\ RunIdle
    /\ SearchIdle

UpsertRelease(tag, text, lookupFault, updateFault, createFault) ==
    LET r == UpsertReleaseByTag(releases, tag, text, lookupFault, updateFault, createFault)
    IN  /\ relRuns[tag] < MaxRuns
        /\ releases' = r.releases
        /\ relCalls' = r.calls
        /\ relResult' = [action |-> r.action, tag |-> tag]
        /\ relRuns' = [relRuns EXCEPT ![tag] = @ + 1]
        /\ relFaults' = relFaults
              + Cardinality({i \in 1..Len(r.calls) :
                    /\ ~r.calls[i].ok
                    /\ ~(r.calls[i].op = "getReleaseByTag" /\ ReleasesOf(releases, tag) = {})})
        /\ UNCHANGED <<clsVars, cmtVars, runVars, searchVars>>

\* a run in which nothing fails but a lookup that finds no release
UpsertReleaseClean ==
    \E tag \in RelTags, text \in Bodies : UpsertRelease(tag, text, FALSE, FALSE, FALSE)

\* a run in which the update fails although the lookup found the release
UpsertReleaseUpdateFails ==
    \E tag \in RelTags, text \in Bodies, cf \in BOOLEAN :
        /\ ReleasesOf(releases, tag) # {}
        /\ UpsertRelease(tag, text, FALSE, TRUE, cf)

\* a run in which the lookup fails on a fault
UpsertReleaseLookupFails ==
    \E tag \in RelTags, text \in Bodies, cf \in BOOLEAN :
        UpsertRelease(tag, text, TRUE, FALSE, cf)

\* a run in which the create fails after a lookup that found nothing
UpsertReleaseCreateFails ==
    \E tag \in RelTags, text \in Bodies :
        /\ ReleasesOf(releases, tag) = {}
        /\ UpsertRelease(tag, text, FALSE, FALSE, TRUE)

NextRelease ==
    \/ UpsertReleaseClean
    \/ UpsertReleaseUpdateFails
    \/ UpsertReleaseLookupFails
    \/ UpsertReleaseCreateFails

SpecRelease == InitRelease /\ [][NextRelease]_vars

\* C2: as long as nothing has failed but lookups that found no release, the
\* platform holds at most one release per tag, the first upsert for a tag
\* answers "created" and every later one answers "updated".
C2_OneReleasePerTag ==
    relFaults = 0 =>
        /\ \A t \in RelTags : Cardinality(ReleasesOf(releases, t)) <= 1
        /\ relResult.action # "none" =>
              /\ relRuns[relResult.tag] = 1 => relResult.action = "created"
              /\ relRuns[relResult.tag] > 1 => relResult.action = "updated"
              /\ Cardinality(ReleasesOf(releases, relResult.tag)) = 1

\* C2 witness: a second fault-free upsert for a tag answered "updated" and the
\* platform holds the one release, with the second run's body.
C2_Witness ==
    /\ relFaults = 0
    /\ relRuns["v1"] = 2
    /\ relResult = [action |-> "updated", tag |-> "v1"]
    /\ Cardinality(ReleasesOf(releases, "v1")) = 1
    /\ \E i \in 1..Len(releases) : releases[i].tag = "v1" /\ releases[i].body = "notes B"

\* C7 (as claimed): when the lookup succeeds and the update then fails, the error
\* leaves upsertReleaseByTag: no createRelease call is made and the answer is not
\* "created"; createRelease is called only after a failed lookup.
C7_UpdateFailurePropagates ==
    /\ (/\ Len(relCalls) >= 2
        /\ relCalls[1] = Call("getReleaseByTag", TRUE)
        /\ relCalls[2] = Call("updateRelease", FALSE))
       => (/\ \A i \in 1..Len(relCalls) : relCalls[i].op # "createRelease"
           /\ relResult.action = "threw")
    /\ (\E i \in 1..Len(relCalls) : relCalls[i].op = "createRelease")
       => relCalls[1] = Call("getReleaseByTag", FALSE)

(***************************************************************************)
(* SpecComment: upsertComment run again and again on one change request    *)
(* while other annotations are added to it.                                *)
(***************************************************************************)
MaxComments == 103
MaxCmtRuns == 3

InitComment ==
    /\ CmtIdle
    /\ ClsIdle
    /\ RelIdle
    /\ RunIdle
    /\ SearchIdle

\* somebody adds an annotation without the marker
AddOtherComment ==
    /\ Len(comments) < MaxComments
    /\ comments' = Append(comments, [marker |-> FALSE, rev |-> 0])
    /\ UNCHANGED <<cmtResult, cmtRuns, clsVars, relVars, runVars, searchVars>>

UpsertComment ==
    LET r == UpsertCommentOn(comments, cmtRuns + 1)
    IN  /\ cmtRuns < MaxCmtRuns
        /\ comments' = r.comments
        /\ cmtResult' = IF r.updated THEN "updated" ELSE "created"
        /\ cmtRuns' = cmtRuns + 1
        /\ UNCHANGED <<clsVars, relVars, runVars, searchVars>>

NextComment == AddOtherComment \/ UpsertComment

SpecComment == InitComment /\ [][NextComment]_vars

MarkerComments(cs) == {i \in 1..Len(cs) : cs[i].marker}

\* C3 (as claimed): whatever the number of other annotations, the request holds
\* at most one annotation with the preview marker, and a run adds an annotation
\* only when none of the request's annotations holds the marker.
C3_AtMostOnePreview ==
    [][/\ Cardinality(MarkerComments(comments')) <= 1
       /\ (cmtRuns' # cmtRuns /\ Len(comments') > Len(comments))
             => MarkerComments(comments) = {}]_vars

(***************************************************************************)
(* run(): inputs, trigger context and the platform it talks to             *)
(***************************************************************************)
\* parseInt(String(s ?? def), 10): NaN, or an integer
NaN == [isNaN |-> TRUE, n |-> 0]
Parsed(n) == [isNaN |-> FALSE, n |-> n]

\* clampInt(s, def, min, max)
ClampInt(v, def, min, max) ==
    IF v.isNaN THEN def
    ELSE IF v.n > max THEN max
    ELSE IF v.n < min THEN min
    ELSE v.n

\* Time in days.  Now is Date.now() of the run.
Now == 20000

IsoDaysAgo(days) == Now - days

TagNames == {"v1", "v2", "v3"}

\* The commit date behind refs/tags/<tag>
TagCommitDateISO(tagName) ==
    CASE tagName = "v1" -> 19900
      [] tagName = "v2" -> 19950
      [] OTHER -> 19990

\* The merged change requests of the base branch, with their merge dates
MergedPRs ==
    << [number |-> 1, title |-> "fix(auth): correct token refresh", user |-> "alice",
        labels |-> <<>>, mergedAt |-> 19920],
       [number |-> 2, title |-> " docs: tidy ", user |-> "bob",
        labels |-> <<"Bug", "feat">>, mergedAt |-> 19960],
       [number |-> 3, title |-> "Feat: dark mode", user |-> "carol",
        labels |-> <<"security">>, mergedAt |-> 19985],
       [number |-> 4, title |-> "Update readme", user |-> "dependabot",
        labels |-> <<"deps">>, mergedAt |-> 19995] >>

\* searchMergedPRs: "merged:>baseline", normalised to { number, title, user, labels },
\* ascending by number (the pool is shorter than one page and than max_prs)
SearchMergedPRs(mergedAfterISO) ==
    LET After(p) == p.mergedAt > mergedAfterISO
        hits == SelectSeq(MergedPRs, After)
    IN  [i \in 1..Len(hits) |->
            [number |-> hits[i].number, title |-> hits[i].title,
             user |-> hits[i].user, labels |-> hits[i].labels]]

\* escapeMd: line breaks to spaces, then trim
EscapeMd(title) == IF title = " docs: tidy " THEN "docs: tidy" ELSE title

FormatLine(p) == [title |-> EscapeMd(p.title), num |-> p.number, author |-> p.user]

\* github.context.ref as [full, prefix, name]
TagRef(t) == [full |-> "refs/tags/" \o t, prefix |-> "refs/tags/", name |-> t]
BranchRef == [full |-> "refs/heads/main", prefix |-> "refs/heads/", name |-> "main"]
PullRef == [full |-> "refs/pull/7/merge", prefix |-> "refs/pull/", name |-> "7/merge"]

\* (ref || "").replace("refs/tags/", "")
StripTagsPrefix(ref) == IF ref.prefix = "refs/tags/" THEN ref.name ELSE ref.full

\* eventName === "push" && (refType === "tag" || ref.startsWith("refs/tags/"))
IsTagPush(c) ==
    /\ c.eventName = "push"
    /\ (c.refType = "tag" \/ c.ref.prefix = "refs/tags/")

IndexOf(seq, x) ==
    IF \E i \in 1..Len(seq) : seq[i] = x
    THEN SetMin({i \in 1..Len(seq) : seq[i] = x})
    ELSE 0

(***************************************************************************)
(* run(), the release window: currentTag, previousTag, the tag whose       *)
(* commit date is the baseline (Null: isoDaysAgo(sinceDays)), and whether  *)
(* the "not found in listTags" warning is logged.                          *)
(***************************************************************************)
ResolveWindowSwapped(c, tgs) ==
    \* mutant: the manual branch takes the two newest tags the wrong way round
    LET pushed == IF IsTagPush(c)
                  THEN (IF Truthy(c.refName) THEN c.refName ELSE StripTagsPrefix(c.ref))
                  ELSE Null
        idx == IndexOf(tgs, pushed)
        prev == IF idx # 0 /\ idx + 1 <= Len(tgs) THEN tgs[idx + 1] ELSE Null
    IN  IF Truthy(pushed)
        THEN [currentTag |-> pushed, previousTag |-> prev, baselineOf |-> prev,
              warned |-> (idx = 0)]
        ELSE IF Len(tgs) >= 2
        THEN [currentTag |-> tgs[2], previousTag |-> tgs[1], baselineOf |-> tgs[2],
              warned |-> FALSE]
        ELSE IF Len(tgs) = 1
        THEN [currentTag |-> tgs[1], previousTag |-> Null, baselineOf |-> tgs[1],
              warned |-> FALSE]
        ELSE [currentTag |-> Null, previousTag |-> Null, baselineOf |-> Null,
              warned |-> FALSE]

ResolveWindowBaselineOfPushed(c, tgs) ==
    \* mutant: on a tag push the baseline is the pushed tag's own commit date
    LET pushed == IF IsTagPush(c)
                  THEN (IF Truthy(c.refName) THEN c.refName ELSE StripTagsPrefix(c.ref))
                  ELSE Null
        idx == IndexOf(tgs, pushed)
        prev == IF idx # 0 /\ idx + 1 <= Len(tgs) THEN tgs[idx + 1] ELSE Null
    IN  IF Truthy(pushed)
        THEN [currentTag |-> pushed, previousTag |-> prev,
              baselineOf |-> IF prev # Null THEN pushed ELSE Null,
              warned |-> (idx = 0)]
        ELSE IF Len(tgs) >= 2
        THEN [currentTag |-> tgs[1], previousTag |-> tgs[2], baselineOf |-> tgs[1],
              warned |-> FALSE]
        ELSE IF Len(tgs) = 1
        THEN [currentTag |-> tgs[1], previousTag |-> Null, baselineOf |-> tgs[1],
              warned |-> FALSE]
        ELSE [currentTag |-> Null, previousTag |-> Null, baselineOf |-> Null,
              warned |-> FALSE]

ResolveWindow(c, tgs) ==
    LET pushed == IF IsTagPush(c)
                  THEN (IF Truthy(c.refName) THEN c.refName ELSE StripTagsPrefix(c.ref))
                  ELSE Null
        idx == IndexOf(tgs, pushed)
        prev == IF idx # 0 /\ idx + 1 <= Len(tgs) THEN tgs[idx + 1] ELSE Null
    IN  IF Truthy(pushed)
        THEN [currentTag |-> pushed, previousTag |-> prev, baselineOf |-> prev,
              warned |-> (idx = 0)]
        ELSE IF Len(tgs) >= 2
        THEN [currentTag |-> tgs[1], previousTag |-> tgs[2], baselineOf |-> tgs[1],
              warned |-> FALSE]
        ELSE IF Len(tgs) = 1
        THEN [currentTag |-> tgs[1], previousTag |-> Null, baselineOf |-> tgs[1],
              warned |-> FALSE]
        ELSE [currentTag |-> Null, previousTag |-> Null, baselineOf |-> Null,
              warned |-> FALSE]

(***************************************************************************)
(* run(), grouping and rendering                                           *)
(***************************************************************************)
CanonicalSections == <<"Added", "Fixed", "Changed", "Docs", "Other">>

FilterPRs(prs, o) ==
    LET Keep(p) == ~ShouldExcludePR(p, o)
    IN  SelectSeq(prs, Keep)

\* The Map of run(): the five canonical keys, then every other section in the
\* order its first record arrives; each key's records in arrival order.
GroupPRs(filtered, o) ==
    LET sec(i) == SectionOf(filtered[i], o.sectionMap, o.useConventional)
        canon == Range(CanonicalSections)
        firsts == {i \in 1..Len(filtered) :
                      /\ sec(i) \notin canon
                      /\ \A j \in 1..(i - 1) : sec(j) # sec(i)}
        IsFirst(i) == i \in firsts
        extraIdx == SelectSeq([i \in 1..Len(filtered) |-> i], IsFirst)
        names == CanonicalSections \o [k \in 1..Len(extraIdx) |-> sec(extraIdx[k])]
    IN  [names |-> names,
         items |-> [n \in Range(names) |->
                       LET In(p) == SectionOf(p, o.sectionMap, o.useConventional) = n
                       IN  SelectSeq(filtered, In)]]

\* for (const k of order) { ... }: one section per non-empty canonical bucket
RenderSections(bk) ==
    LET NonEmpty(k) == Len(bk.items[k]) > 0
        shown == SelectSeq(CanonicalSections, NonEmpty)
    IN  [i \in 1..Len(shown) |->
            [heading |-> shown[i],
             lines |-> [j \in 1..Len(bk.items[shown[i]]) |->
                           FormatLine(bk.items[shown[i]][j])]]]

RECURSIVE SumLen(_)
SumLen(secs) == IF secs = <<>> THEN 0 ELSE Len(Head(secs).lines) + SumLen(Tail(secs))

RenderBody(c, cur, prev, baseline, bk) ==
    LET secs == RenderSections(bk)
    IN  [title |-> IF c.eventName = "push" /\ Truthy(cur)
                   THEN [kind |-> "Release", tag |-> cur]
                   ELSE [kind |-> "Release notes (unreleased)", tag |-> Null],
         rangeLine |-> IF Truthy(cur) /\ Truthy(prev)
                       THEN [kind |-> "From..to", from |-> prev, to |-> cur]
                       ELSE IF Truthy(cur)
                       THEN [kind |-> "Since tag", from |-> cur, to |-> Null]
                       ELSE [kind |-> "Since", from |-> baseline, to |-> Null],
         compare |-> IF Truthy(cur) /\ Truthy(prev) THEN <<prev, cur>> ELSE Null,
         sections |-> secs,
         placeholder |-> (SumLen(secs) = 0)]

(***************************************************************************)
(* SpecRun: one run() from its trigger to its exit.  Every collaborator    *)
(* call may fail; an error that reaches the catch of run() ends it with    *)
(* core.setFailed (pc = "failed").                                         *)
(***************************************************************************)
MaxTags == 2

\* repos.listTags: the repository's tags, no name twice
TagLists == {t \in SeqsUpTo(TagNames, MaxTags) :
                \A i, j \in 1..Len(t) : i # j => t[i] # t[j]}

\* github.context.payload.pull_request of an event that has none: its number is
\* undefined, which "if (prNumber)" reads as false
NoPullRequest == [number |-> 0, title |-> "", user |-> "", labels |-> <<>>]

PullRequestPayloads ==
    {[number |-> 7, title |-> "Update readme", user |-> "dependabot", labels |-> <<"deps">>],
     [number |-> 7, title |-> "fix(auth): correct token refresh", user |-> "alice",
      labels |-> <<>>]}

RunContexts ==
    {[eventName |-> "push", refType |-> "tag", refName |-> t, ref |-> TagRef(t),
      pull_request |-> NoPullRequest] : t \in TagNames}
    \cup {[eventName |-> "push", refType |-> Undefined, refName |-> Undefined,
           ref |-> TagRef(t), pull_request |-> NoPullRequest] : t \in TagNames}
    \cup {[eventName |-> "push", refType |-> "branch", refName |-> "main",
           ref |-> BranchRef, pull_request |-> NoPullRequest],
          [eventName |-> "push", refType |-> Undefined, refName |-> Undefined,
           ref |-> BranchRef, pull_request |-> NoPullRequest],
          [eventName |-> "workflow_dispatch", refType |-> "branch", refName |-> "main",
           ref |-> BranchRef, pull_request |-> NoPullRequest]}
    \cup {[eventName |-> "pull_request", refType |-> "branch", refName |-> "7/merge",
           ref |-> PullRef, pull_request |-> q] : q \in PullRequestPayloads}

CustomSectionMap == [k \in {"bug", "security"} |-> IF k = "bug" THEN "Fixed" ELSE "Security"]

\* the texts of the section_map input: not given, an object, text that is not
\* JSON, and JSON that is not an object
CustomMapText == "{\"bug\":\"Fixed\",\"security\":\"Security\"}"
NotJsonText == "{bug: Fixed"
SectionMapTexts == {"", CustomMapText, NotJsonText, "null", "42"}

\* a value with no property of its own
NoOwnKeys == [k \in {} |-> ""]

\* JSON.parse on the texts of the model: it throws on text that is not JSON and
\* answers null for "null", a number for "42" and an object for an object
JsonParse(text) ==
    CASE text = CustomMapText -> [threw |-> FALSE, kind |-> "object", map |-> CustomSectionMap]
      [] text = "null"        -> [threw |-> FALSE, kind |-> "null", map |-> NoOwnKeys]
      [] text = "42"          -> [threw |-> FALSE, kind |-> "number", map |-> NoOwnKeys]
      [] OTHER                -> [threw |-> TRUE, kind |-> "none", map |-> NoOwnKeys]

\* let sectionMap = DEFAULT_LABEL_MAP; if (raw) { try { sectionMap = JSON.parse(raw) }
\* catch { core.warning(...) } }: kind is what sectionMap holds afterwards, map its
\* own properties, warned whether the warning was logged
ReadSectionMap(raw) ==
    IF raw = ""
    THEN [kind |-> "object", map |-> DEFAULT_LABEL_MAP, warned |-> FALSE]
    ELSE IF JsonParse(raw).threw
    THEN [kind |-> "object", map |-> DEFAULT_LABEL_MAP, warned |-> TRUE]
    ELSE [kind |-> JsonParse(raw).kind, map |-> JsonParse(raw).map, warned |-> FALSE]

\* sectionMap[name] throws a TypeError when sectionMap is null; bucketForLabels
\* reads it for the first label
BucketForLabelsThrows(labelNames, kind) == kind = "null" /\ labelNames # <<>>

\* include_labels, exclude_labels, ignore_deps, use_conventional_commits, section_map
ClassifierInputs ==
    {[includeLabels |-> <<>>, excludeLabels |-> <<>>, ignoreDeps |-> FALSE,
      useConventional |-> FALSE, sectionMapRaw |-> ""],
     [includeLabels |-> <<>>, excludeLabels |-> <<>>, ignoreDeps |-> FALSE,
      useConventional |-> TRUE, sectionMapRaw |-> CustomMapText],
     [includeLabels |-> <<>>, excludeLabels |-> <<"bug">>, ignoreDeps |-> TRUE,
      useConventional |-> TRUE, sectionMapRaw |-> ""]}
    \cup {[includeLabels |-> <<>>, excludeLabels |-> <<>>, ignoreDeps |-> FALSE,
            useConventional |-> FALSE, sectionMapRaw |-> t] :
               t \in SectionMapTexts \ {"", CustomMapText}}

\* since_days as parseInt reads it
SinceDaysInputs == {NaN, Parsed(0), Parsed(14), Parsed(99999)}

RunInputs ==
    {[createRelease |-> cr, previewOnPR |-> pv, sinceDays |-> sd,
      includeLabels |-> c.includeLabels, excludeLabels |-> c.excludeLabels,
      ignoreDeps |-> c.ignoreDeps, useConventional |-> c.useConventional,
      sectionMapRaw |-> c.sectionMapRaw,
      sectionMap |-> ReadSectionMap(c.sectionMapRaw).map,
      sectionMapKind |-> ReadSectionMap(c.sectionMapRaw).kind] :
        cr \in BOOLEAN, pv \in BOOLEAN, sd \in SinceDaysInputs, c \in ClassifierInputs}

InitRun ==
    /\ ctx \in RunContexts
    /\ inputs \in RunInputs
    /\ tags \in TagLists
    /\ pc = "start"
    /\ failedAt = Null
    /\ currentTag = Null
    /\ previousTag = Null
    /\ baselineISO = NoDate
    /\ warnings = <<>>
    /\ buckets = Null
    /\ body = Null
    /\ summary = <<>>
    /\ previewBody = Null
    /\ sinkLog = <<>>
    /\ failures = 0
    /\ releases \in {<<>>, <<[id |-> 1, tag |-> "v2", body |-> "notes A"]>>}
    /\ relCalls = <<>>
    /\ relResult = [action |-> "none", tag |-> Null]
    /\ relRuns = [t \in RelTags |-> 0]
    /\ relFaults = 0
    /\ CmtIdle
    /\ ClsIdle
    /\ SearchIdle

FailAndGoOn(at) ==
    \* mutant: the error is reported and the run goes on to the preview sink
    /\ pc' = "released"
    /\ failedAt' = at
    /\ failures' = failures + 1

\* } catch (err) { core.setFailed(...) }
Fail(at) ==
    /\ pc' = "failed"
    /\ failedAt' = at
    /\ failures' = failures + 1

\* run(), from reading the inputs to the baseline
RunResolve ==
    /\ pc = "start"
    /\ \E fault \in {"none", "listTags", "tagCommitDateISO"} :
        LET w == ResolveWindow(ctx, tags)
            sinceDays == ClampInt(inputs.sinceDays, 30, 1, 3650)
            read == IF ReadSectionMap(inputs.sectionMapRaw).warned
                    THEN Append(warnings, "Could not parse section_map as JSON")
                    ELSE warnings
        IN  IF fault = "listTags"
            THEN /\ Fail("listTags")
                 /\ currentTag' = (IF IsTagPush(ctx) THEN w.currentTag ELSE Null)
                 /\ warnings' = read
                 /\ UNCHANGED <<previousTag, baselineISO>>
            ELSE /\ currentTag' = w.currentTag
                 /\ previousTag' = w.previousTag
                 /\ warnings' = IF w.warned
                                THEN Append(read, "Current tag not found in listTags")
                                ELSE read
                 /\ IF fault = "tagCommitDateISO"
                    THEN /\ w.baselineOf # Null
                         /\ Fail("tagCommitDateISO")
                         /\ UNCHANGED baselineISO
                    ELSE /\ baselineISO' = IF w.baselineOf # Null
                                           THEN TagCommitDateISO(w.baselineOf)
                                           ELSE IsoDaysAgo(sinceDays)
                         /\ pc' = "resolved"
                         /\ UNCHANGED <<failedAt, failures>>
    /\ UNCHANGED <<ctx, inputs, tags, buckets, body, summary, previewBody, sinkLog,
                   clsVars, relVars, cmtVars, searchVars>>

\* run(), from the search to the rendered body
RunCollect ==
    /\ pc = "resolved"
    /\ \E fault \in BOOLEAN :
        IF fault
        THEN /\ Fail("searchMergedPRs")
             /\ UNCHANGED <<buckets, body>>
        ELSE LET prs == SearchMergedPRs(baselineISO)
                 filtered == FilterPRs(prs, inputs)
                 bk == GroupPRs(filtered, inputs)
             IN  IF \E k \in 1..Len(filtered) :
                        BucketForLabelsThrows(filtered[k].labels, inputs.sectionMapKind)
                 THEN /\ Fail("bucketForLabels")
                      /\ UNCHANGED <<buckets, body>>
                 ELSE /\ buckets' = bk
                      /\ body' = RenderBody(ctx, currentTag, previousTag, baselineISO, bk)
                      /\ pc' = "rendered"
                      /\ UNCHANGED <<failedAt, failures>>
    /\ UNCHANGED <<ctx, inputs, tags, currentTag, previousTag, baselineISO, warnings,
                   summary, previewBody, sinkLog, clsVars, relVars, cmtVars, searchVars>>

\* await writeSummary(body)
RunSummary ==
    /\ pc = "rendered"
    /\ \E fault \in BOOLEAN :
        IF fault
        THEN /\ Fail("writeSummary")
             /\ UNCHANGED summary
        ELSE /\ summary' = Append(summary, "body")
             /\ pc' = "summarized"
             /\ UNCHANGED <<failedAt, failures>>
    /\ sinkLog' = Append(sinkLog, "summary")
    /\ UNCHANGED <<ctx, inputs, tags, currentTag, previousTag, baselineISO, warnings,
                   buckets, body, previewBody, clsVars, relVars, cmtVars, searchVars>>

\* if (createRelease) { if (eventName === "push" && currentTag) ... else ... }
RunRelease ==
    /\ pc = "summarized"
    /\ IF inputs.createRelease /\ ctx.eventName = "push" /\ Truthy(currentTag)
       THEN \E lf \in BOOLEAN, uf \in BOOLEAN, cf \in BOOLEAN, sf \in BOOLEAN :
              LET r == UpsertReleaseByTag(releases, currentTag, body, lf, uf, cf)
              IN  /\ releases' = r.releases
                  /\ relCalls' = r.calls
                  /\ relResult' = [action |-> r.action, tag |-> currentTag]
                  /\ IF r.action = "threw"
                     THEN /\ ~sf
                          /\ Fail("upsertReleaseByTag")
                          /\ sinkLog' = Append(sinkLog, "release")
                          /\ UNCHANGED summary
                     ELSE /\ sinkLog' = sinkLog \o <<"release", "summary">>
                          /\ IF sf
                             THEN /\ Fail("writeSummary")
                                  /\ UNCHANGED summary
                             ELSE /\ summary' = Append(summary, "Release " \o r.action)
                                  /\ pc' = "released"
                                  /\ UNCHANGED <<failedAt, failures>>
       ELSE /\ IF inputs.createRelease
               THEN \E sf \in BOOLEAN :
                      /\ sinkLog' = Append(sinkLog, "summary")
                      /\ IF sf
                         THEN /\ Fail("writeSummary")
                              /\ UNCHANGED summary
                         ELSE /\ summary' = Append(summary,
                                      "Release creation skipped (not a tag push).")
                              /\ pc' = "released"
                              /\ UNCHANGED <<failedAt, failures>>
               ELSE /\ pc' = "released"
                    /\ UNCHANGED <<failedAt, failures, summary, sinkLog>>
            /\ UNCHANGED <<releases, relCalls, relResult>>
    /\ UNCHANGED <<ctx, inputs, tags, currentTag, previousTag, baselineISO, warnings,
                   buckets, body, previewBody, relRuns, relFaults, clsVars, cmtVars,
                   searchVars>>

\* if (previewOnPR && eventName === "pull_request") { ... }
RunPreview ==
    /\ pc = "released"
    /\ IF /\ inputs.previewOnPR
          /\ ctx.eventName = "pull_request"
          /\ ctx.pull_request.number # 0
       THEN LET prData == ctx.pull_request
                section == SectionOf(prData, inputs.sectionMap, inputs.useConventional)
                r == UpsertCommentOn(comments, 1)
            IN  IF BucketForLabelsThrows(prData.labels, inputs.sectionMapKind)
                THEN /\ Fail("bucketForLabels (preview)")
                     /\ UNCHANGED <<previewBody, sinkLog, comments, cmtResult>>
                ELSE /\ previewBody' = [section |-> section, line |-> FormatLine(prData)]
                     /\ sinkLog' = Append(sinkLog, "preview")
                     /\ \E fault \in BOOLEAN :
                          IF fault
                          THEN /\ Fail("upsertComment")
                               /\ UNCHANGED <<comments, cmtResult>>
                          ELSE /\ comments' = r.comments
                               /\ cmtResult' = IF r.updated THEN "updated" ELSE "created"
                               /\ pc' = "done"
                               /\ UNCHANGED <<failedAt, failures>>
       ELSE /\ pc' = "done"
            /\ UNCHANGED <<failedAt, failures, previewBody, sinkLog, comments, cmtResult>>
    /\ UNCHANGED <<ctx, inputs, tags, currentTag, previousTag, baselineISO, warnings,
                   buckets, body, summary, cmtRuns, clsVars, relVars, searchVars>>

NextRun == RunResolve \/ RunCollect \/ RunSummary \/ RunRelease \/ RunPreview

SpecRun == InitRun /\ [][NextRun]_vars

\* run() got past the release window: the collector was called
ReachedCollector ==
    \/ pc \in {"resolved", "rendered", "summarized", "released", "done"}
    \/ pc = "failed" /\ failedAt \notin {"listTags", "tagCommitDateISO"}

\* run() rendered the body
Rendered ==
    \/ pc \in {"rendered", "summarized", "released", "done"}
    \/ pc = "failed" /\ failedAt \in {"writeSummary", "upsertReleaseByTag", "upsertComment",
                                       "bucketForLabels (preview)"}

\* C1 (as claimed): the release upsert is called only if create_release is
\* enabled and the trigger is a push of a tag reference; a push of a branch
\* never creates or updates a release.
C1_ReleaseOnlyOnTagPush ==
    relCalls # <<>> => (inputs.createRelease /\ IsTagPush(ctx))

C5_TagNotFoundFallsBackToLatest ==
    (/\ pc # "start"
     /\ failedAt # "listTags"
     /\ IsTagPush(ctx)
     /\ ctx.ref.name \notin Range(tags)) =>
        /\ "Current tag not found in listTags" \in Range(warnings)
        /\ Len(tags) >= 2 => (currentTag = tags[1] /\ previousTag = tags[2])
        /\ Len(tags) = 1 => (currentTag = tags[1] /\ previousTag = Null)
        /\ Len(tags) = 0 => currentTag = Null

\* C6: in every run that reaches the collector the baseline is set; previousTag is
\* set only with two or more tags in the history, and then currentTag is set and
\* previousTag is the entry right after it; with an empty history the baseline is
\* now minus since_days clamped to 1..3650 (30 when it is not a number).
C6_WindowInvariant ==
    ReachedCollector =>
        /\ baselineISO # NoDate
        /\ previousTag # Null =>
              /\ Len(tags) >= 2
              /\ currentTag # Null
              /\ \E i \in 1..(Len(tags) - 1) :
                    tags[i] = currentTag /\ tags[i + 1] = previousTag
        /\ tags = <<>> =>
              LET v == inputs.sinceDays
                  d == Now - baselineISO
              IN  /\ d >= 1 /\ d <= 3650
                  /\ v.isNaN => d = 30
                  /\ (~v.isNaN /\ v.n >= 1 /\ v.n <= 3650) => d = v.n
                  /\ (~v.isNaN /\ v.n < 1) => d = 1
                  /\ (~v.isNaN /\ v.n > 3650) => d = 3650

\* C6 witness: a manual run on a history of two tags reached the collector with
\* the newest tag as currentTag and the next one as previousTag.
C6_Witness ==
    /\ pc = "resolved"
    /\ ~IsTagPush(ctx)
    /\ Len(tags) = 2
    /\ currentTag = tags[1]
    /\ previousTag = tags[2]
    /\ baselineISO # NoDate

\* the lines of the body that carry record number n, as <<section, line>> places
PlacesOf(n) ==
    {<<i, j>> \in (1..Len(body.sections)) \X (1..Len(MergedPRs)) :
        /\ j <= Len(body.sections[i].lines)
        /\ body.sections[i].lines[j].num = n}

\* C9 (as claimed): every record that passed the filters is in the body exactly
\* once, under the heading of its section; the headings are the non-empty
\* sections in the order Added, Fixed, Changed, Docs, Other and then the sections
\* a custom map added; the placeholder is there only when no record was put into
\* any section.
C9_EveryRecordRendered ==
    Rendered =>
        LET filtered == FilterPRs(SearchMergedPRs(baselineISO), inputs)
            NonEmpty(k) == Len(buckets.items[k]) > 0
            shown == SelectSeq(buckets.names, NonEmpty)
        IN  /\ \A k \in 1..Len(filtered) :
                  /\ Cardinality(PlacesOf(filtered[k].number)) = 1
                  /\ \A q \in PlacesOf(filtered[k].number) :
                        body.sections[q[1]].heading =
                            SectionOf(filtered[k], inputs.sectionMap, inputs.useConventional)
            /\ [i \in 1..Len(body.sections) |-> body.sections[i].heading] = shown
            /\ body.placeholder <=> filtered = <<>>

C13_PreviewMatchesPipeline ==
    (Len(sinkLog) > 0 /\ sinkLog[Len(sinkLog)] = "preview") =>
        /\ ~ShouldExcludePR(ctx.pull_request, inputs)
        /\ previewBody.section =
               SectionOf(ctx.pull_request, inputs.sectionMap, inputs.useConventional)

\* the section_map input is not a usable JSON object
UnusableSectionMap(raw) ==
    raw # "" /\ (JsonParse(raw).threw \/ JsonParse(raw).kind # "object")

\* C14 (as claimed): when the section_map input is text that does not parse as
\* JSON or that parses to a non-object, the run does not fail because of it, the
\* warning is logged once the inputs are read, and every record kept by the
\* filters is put into the section the built-in default map gives it.
C14_UnusableMapWarnsAndDefaults ==
    UnusableSectionMap(inputs.sectionMapRaw) =>
        /\ failedAt \notin {"bucketForLabels", "bucketForLabels (preview)"}
        /\ pc # "start" => "Could not parse section_map as JSON" \in Range(warnings)
        /\ Rendered =>
              buckets = GroupPRs(FilterPRs(SearchMergedPRs(baselineISO), inputs),
                                 [inputs EXCEPT !.sectionMap = DEFAULT_LABEL_MAP])

(***************************************************************************)
(* SpecSearch: searchMergedPRs, one iteration of its while loop per step.  *)
(* The search API answers each request with a page of any length up to    *)
(* per_page, in any order, or rejects it.                                  *)
(***************************************************************************)
perPage == 100

\* the largest max_prs input offered (the code clamps to 1..1000)
MaxPRsTop == 250

\* the numbers on a descending page count down from here
TopNumber == 2000

\* core.getInput("max_prs") after Number(): not a number, or a number
MaxPRsInputs ==
    {NaN, Parsed(0), Parsed(1), Parsed(99), Parsed(100), Parsed(101), Parsed(MaxPRsTop)}

\* the lengths of the page the API answers with
PageLengths == {0, 1, perPage - 1, perPage}

\* the order of the numbers on a page: newest first, oldest first, or the
\* same records again (records that moved between pages while paging)
PageShapes == {"desc", "asc", "again"}

\* an item of resp.data.items: labels are strings or objects, some nameless;
\* the user may be missing
RawItem(n) ==
    [number |-> n,
     title  |-> "t",
     user   |-> IF n % 3 = 0 THEN Undefined ELSE "dev",
     labels |-> IF n % 2 = 0
                THEN <<[isString |-> TRUE, name |-> "bug"],
                       [isString |-> FALSE, name |-> ""]>>
                ELSE <<[isString |-> FALSE, name |-> "feat"]>>]

ResponsePage(p, len, shape) ==
    [i \in 1..len |->
        RawItem(CASE shape = "desc"  -> TopNumber - ((p - 1) * perPage + i)
                  [] shape = "asc"   -> (p - 1) * perPage + i
                  [] shape = "again" -> i)]

\* labels.map(l => typeof l === "string" ? l : l?.name).filter(Boolean)
RECURSIVE LabelNamesOf(_)
LabelNamesOf(ls) ==
    IF ls = <<>> THEN <<>>
    ELSE IF Head(ls).name # ""
         THEN <<Head(ls).name>> \o LabelNamesOf(Tail(ls))
         ELSE LabelNamesOf(Tail(ls))

\* the record out.push() stores
NormalizeItem(item) ==
    [number |-> item.number,
     title  |-> item.title,
     user   |-> IF item.user = Undefined THEN "unknown" ELSE item.user,
     labels |-> LabelNamesOf(item.labels)]

TakeItemsNoCap(acc, items, max) ==
    \* mutant: the inner break is left out
    acc \o [i \in 1..Len(items) |-> NormalizeItem(items[i])]

\* for (const item of items) { out.push(...); if (out.length >= maxPRs) break; }
TakeItems(acc, items, max) ==
    LET room  == max - Len(acc)
        taken == IF room < 1 THEN 1 ELSE IF Len(items) < room THEN Len(items) ELSE room
    IN  IF items = <<>> THEN acc
        ELSE acc \o [i \in 1..taken |-> NormalizeItem(items[i])]

\* out.sort((a, b) => a.number - b.number): Array.prototype.sort is stable, so
\* a record lands after every record with a smaller number and after every
\* earlier record with the same number
SortByNumber(recs) ==
    LET n    == Len(recs)
        rank == SubSeq([i \in 1..n |->
                    1 + Cardinality({j \in 1..n :
                            \/ recs[j].number < recs[i].number
                            \/ recs[j].number = recs[i].number /\ j < i})], 1, n)
    IN  [k \in 1..n |-> recs[CHOOSE i \in 1..n : rank[i] = k]]

InitSearch ==
    /\ \E raw \in MaxPRsInputs : maxPRs = ClampInt(raw, 200, 1, 1000)
    /\ page = 1
    /\ out = <<>>
    /\ reqs = <<>>
    /\ searchPc = "loop"
    /\ searchResult = <<>>
    /\ ClsIdle
    /\ RelIdle
    /\ CmtIdle
    /\ RunIdle

\* one pass of while (out.length < maxPRs) { ... }; when the pass leaves the
\* loop, the sort and the return belong to the same step
FetchPage ==
    /\ searchPc = "loop"
    /\ Len(out) < maxPRs
    /\ \E len \in PageLengths, shape \in PageShapes :
          LET items == ResponsePage(page, len, shape)
              acc   == TakeItems(out, items, maxPRs)
              leave == \/ Len(items) = 0
                       \/ Len(items) < perPage
                       \/ ~(Len(acc) < maxPRs)
          IN  /\ reqs' = Append(reqs, [page |-> page, len |-> len])
              /\ out' = acc
              /\ page' = IF Len(items) = 0 \/ Len(items) < perPage THEN page ELSE page + 1
              /\ searchPc' = IF leave THEN "done" ELSE "loop"
              /\ searchResult' = IF leave THEN SortByNumber(acc) ELSE searchResult
    /\ UNCHANGED <<maxPRs, clsVars, relVars, cmtVars, runVars>>

\* the request rejects: searchMergedPRs throws, nothing is returned
SearchThrows ==
    /\ searchPc = "loop"
    /\ Len(out) < maxPRs
    /\ reqs' = Append(reqs, [page |-> page, len |-> 0])
    /\ searchPc' = "threw"
    /\ UNCHANGED <<maxPRs, page, out, searchResult, clsVars, relVars, cmtVars, runVars>>

NextSearch ==
    \/ FetchPage
    \/ SearchThrows

SpecSearch == InitSearch /\ [][NextSearch]_vars

Ascending(recs) == \A i \in 1..Len(recs) - 1 : recs[i].number <= recs[i + 1].number

\* C11: searchMergedPRs requests pages 1, 2, 3, ... in turn; it goes on to the
\* next page only after a full page of 100 that left fewer than maxPRs records
\* accumulated, and it stops at the first empty or short page or as soon as
\* maxPRs records are held; the number of requests is bounded by
\* ceil(maxPRs / 100) and a call still in the loop satisfies the loop
\* condition, so it terminates; what it returns has at most maxPRs
\* records, holds every accumulated record, and is ascending by number whatever
\* the order inside the pages was.
C11_PagedCappedSorted ==
    /\ maxPRs \in 1..1000
    /\ \A k \in 1..Len(reqs) : reqs[k].page = k
    /\ \A k \in 1..Len(reqs) - 1 : reqs[k].len = perPage /\ k * perPage < maxPRs
    /\ Len(reqs) * perPage < maxPRs + perPage
    /\ searchPc = "loop" =>
          /\ Len(out) < maxPRs
          /\ reqs # <<>> => reqs[Len(reqs)].len = perPage
    /\ searchPc = "done" =>
          /\ reqs # <<>>
          /\ \/ reqs[Len(reqs)].len < perPage
             \/ Len(out) = maxPRs
          /\ Len(searchResult) <= maxPRs
          /\ Len(searchResult) = Len(out)
          /\ Range(searchResult) = Range(out)
          /\ Ascending(searchResult)

\* two requests, the cap reached in the middle of the second page, and the
\* accumulated records out of order before the sort
C11_Witness ==
    /\ searchPc = "done"
    /\ Len(reqs) = 2
    /\ maxPRs = perPage + 1
    /\ Len(searchResult) = maxPRs
    /\ ~Ascending(out)
    /\ Ascending(searchResult)

====
